---- MODULE Spec2Model ----
(***************************************************************************)
(* Model of the audio client of cli-audio-streamer (client/src/lib.rs,     *)
(* client/src/main.rs): device selection, the startup sequence of main,    *)
(* the control listener task and the capture callback.                     *)
(***************************************************************************)
EXTENDS Integers, Sequences, FiniteSets, TLC

VARIABLES
    args,            \* Args::parse(): [volume, list_devices, device_index, device_name]
    devices,         \* host.devices()?.collect(): sequence of device descriptors
    selected,        \* result of select_device: an Option of a position in devices
    mainPc,          \* position of main
    exitCode,        \* exit code of the process once mainPc = "exited"
    sample_format,   \* config.sample_format() of the selected device
    stream,          \* the cpal input stream: "none", "built", "playing", "paused"
    volume,          \* Arc<Mutex<f32>>: an Option (nothing before main.rs:96)
    mutex,           \* holder of the volume lock: "free", "listener", "callback"
    listenerPc,      \* position of the control listener task
    datagram,        \* payload on the wire of the datagram last delivered to recv_from
    recv,            \* result of the last recv_from: [ok, len]
    buf,             \* the listener's 8-byte receive buffer
    received_volume, \* the listener's decoded f64
    cbPc,            \* position of the capture callback
    data,            \* the captured samples of the running callback invocation
    vol,             \* the callback's volume snapshot
    buffer,          \* the callback's output byte buffer
    next_sample,     \* position of the callback's for loop in data
    lastSend,        \* outcome of the last try_send: "none", "ok", "err"
    audioSent        \* whether some audio datagram has left through the socket

mainVars == <<args, devices, selected, mainPc, exitCode, sample_format, stream>>

listenerVars == <<listenerPc, datagram, recv, buf, received_volume>>

callbackVars == <<cbPc, data, vol, buffer, next_sample, lastSend, audioSent>>

vars == <<mainVars, volume, mutex, listenerVars, callbackVars>>

(***************************************************************************)
(* Text.  A string is a sequence of one-character strings, so that         *)
(* to_lowercase and contains are computed, not assumed.                    *)
(***************************************************************************)
UpperChars == <<"A","B","C","D","E","F","G","H","I","J","K","L","M",
                "N","O","P","Q","R","S","T","U","V","W","X","Y","Z">>

LowerChars == <<"a","b","c","d","e","f","g","h","i","j","k","l","m",
                "n","o","p","q","r","s","t","u","v","w","x","y","z">>

\* char::to_lowercase on the ASCII letters (every other character is kept)
CharToLower(c) ==
    IF \E i \in 1..Len(UpperChars) : UpperChars[i] = c
    THEN LowerChars[CHOOSE i \in 1..Len(UpperChars) : UpperChars[i] = c]
    ELSE c

\* str::to_lowercase
to_lowercase(s) == [i \in 1..Len(s) |-> CharToLower(s[i])]

\* str::contains(pattern): pattern occurs as a contiguous substring
contains(s, pat) ==
    \E off \in 0..(Len(s) - Len(pat)) :
        \A k \in 1..Len(pat) : s[off + k] = pat[k]

\* lib.rs:4
loopback_names ==
    << <<"s","t","e","r","e","o"," ","m","i","x">>,
       <<"l","o","o","p","b","a","c","k">>,
       <<"b","l","a","c","k","h","o","l","e">>,
       <<"s","o","u","n","d","f","l","o","w","e","r">> >>

(***************************************************************************)
(* IEEE-754 arithmetic.  An f32 is its three bit fields; an f64 is its     *)
(* sign, its exponent field and its 52-bit fraction in two 26-bit halves   *)
(* (fh the upper, fl the lower), so that every number stays below 2^31.    *)
(***************************************************************************)
F32(s, e, m) == [s |-> s, e |-> e, m |-> m]

F64(s, e, fh, fl) == [s |-> s, e |-> e, fh |-> fh, fl |-> fl]

Pow2(k) == 2 ^ k

F32IsNaN(x) == x.e = 255 /\ x.m # 0

F32IsInf(x) == x.e = 255 /\ x.m = 0

F32IsZero(x) == x.e = 0 /\ x.m = 0

F32Inf(s) == F32(s, 255, 0)

F32Zero(s) == F32(s, 0, 0)

\* the quiet NaN the arithmetic yields
F32NaN == F32(0, 255, Pow2(22))

\* the sign-magnitude bit pattern as a signed integer: order-preserving on
\* the non-NaN values, with -0.0 and +0.0 both 0
F32Ord(x) == IF x.s = 0 THEN x.e * Pow2(23) + x.m ELSE 0 - (x.e * Pow2(23) + x.m)

\* the comparison operators of f32: every comparison with a NaN is false
F32Lt(a, b) == ~F32IsNaN(a) /\ ~F32IsNaN(b) /\ F32Ord(a) < F32Ord(b)

F32Gt(a, b) == F32Lt(b, a)

F64IsNaN(x) == x.e = 2047 /\ (x.fh # 0 \/ x.fl # 0)

\* magnitude order of two f64 bit patterns: -1, 0 or 1
F64CmpMag(a, b) ==
    IF a.e # b.e THEN (IF a.e < b.e THEN 0 - 1 ELSE 1)
    ELSE IF a.fh # b.fh THEN (IF a.fh < b.fh THEN 0 - 1 ELSE 1)
    ELSE IF a.fl # b.fl THEN (IF a.fl < b.fl THEN 0 - 1 ELSE 1)
    ELSE 0

F64IsZero(x) == x.e = 0 /\ x.fh = 0 /\ x.fl = 0

\* a < b on f64
F64Lt(a, b) ==
    /\ ~F64IsNaN(a) /\ ~F64IsNaN(b)
    /\ ~(F64IsZero(a) /\ F64IsZero(b))
    /\ IF a.s # b.s THEN a.s = 1
       ELSE IF a.s = 0 THEN F64CmpMag(a, b) < 0 ELSE F64CmpMag(a, b) > 0

\* a <= b and a >= b on f64
F64Le(a, b) == ~F64IsNaN(a) /\ ~F64IsNaN(b) /\ ~F64Lt(b, a)

F64Ge(a, b) == F64Le(b, a)

\* round-to-nearest-even of the exact value (hi * 2^24 + lo) * 2^exp, with
\* 0 <= hi, lo < 2^24, to an f32 of sign s
BitLen(n) == IF n = 0 THEN 0 ELSE CHOOSE k \in 1..31 : Pow2(k - 1) <= n /\ n < Pow2(k)

RoundPack(s, hi, lo, exp) ==
    IF hi = 0 /\ lo = 0 THEN F32Zero(s)
    ELSE
    LET len    == IF hi # 0 THEN 24 + BitLen(hi) ELSE BitLen(lo)
        norm   == len - 24                   \* right shift that leaves 24 bits
        e      == exp + norm + 150           \* biased exponent of a normal result
        sh     == IF e >= 1 THEN norm ELSE norm + (1 - e)
        eb     == IF e >= 1 THEN e ELSE 1
        \* quotient and remainder class of the shift: cmp is the remainder
        \* against half a unit in the last place (-1 below, 0 tie, 1 above)
        q      == IF sh <= 0 THEN lo * Pow2(0 - sh)
                  ELSE IF sh <= 24 THEN hi * Pow2(24 - sh) + lo \div Pow2(sh)
                  ELSE IF sh <= 48 THEN hi \div Pow2(sh - 24)
                  ELSE 0
        cmp    == IF sh <= 0 THEN 0 - 1
                  ELSE IF sh <= 24
                  THEN LET r == lo % Pow2(sh)  half == Pow2(sh - 1)
                       IN  IF r > half THEN 1 ELSE IF r = half THEN 0 ELSE 0 - 1
                  ELSE IF sh <= 48
                  THEN LET rh == hi % Pow2(sh - 24)  half == Pow2(sh - 25)
                       IN  IF rh > half \/ (rh = half /\ lo > 0) THEN 1
                           ELSE IF rh = half THEN 0 ELSE 0 - 1
                  ELSE 0 - 1
        up     == IF cmp > 0 \/ (cmp = 0 /\ q % 2 = 1) THEN 1 ELSE 0
        mag    == (eb - 1) * Pow2(23) + q + up
    IN  IF e >= 255 \/ mag >= 255 * Pow2(23) THEN F32Inf(s)
        ELSE F32(s, mag \div Pow2(23), mag % Pow2(23))

\* a finite nonzero f32 as significand * 2^exp
F32Sig(x) == IF x.e = 0 THEN x.m ELSE Pow2(23) + x.m

F32Exp(x) == IF x.e = 0 THEN 0 - 149 ELSE x.e - 150

XorSign(a, b) == IF a.s = b.s THEN 0 ELSE 1

\* a * b on f32
F32Mul(a, b) ==
    IF F32IsNaN(a) \/ F32IsNaN(b) THEN F32NaN
    ELSE IF F32IsInf(a) \/ F32IsInf(b)
    THEN (IF F32IsZero(a) \/ F32IsZero(b) THEN F32NaN ELSE F32Inf(XorSign(a, b)))
    ELSE IF F32IsZero(a) \/ F32IsZero(b) THEN F32Zero(XorSign(a, b))
    ELSE
    LET sa == F32Sig(a)  sb == F32Sig(b)
        ah == sa \div 4096  al == sa % 4096
        bh == sb \div 4096  bl == sb % 4096
        t0 == al * bl
        t1 == ah * bl + al * bh
        t2 == ah * bh
        lo == t0 + (t1 % 4096) * 4096
        hi == t2 + t1 \div 4096 + lo \div Pow2(24)
    IN  RoundPack(XorSign(a, b), hi, lo % Pow2(24), F32Exp(a) + F32Exp(b))

\* restoring division: n more quotient bits of r / d (r < d), as <<q, r>>
RECURSIVE DivBits(_, _, _, _)
DivBits(q, r, d, n) ==
    IF n = 0 THEN <<q, r>>
    ELSE IF 2 * r >= d THEN DivBits(2 * q + 1, 2 * r - d, d, n - 1)
    ELSE DivBits(2 * q, 2 * r, d, n - 1)

\* a / b on f32
F32Div(a, b) ==
    IF F32IsNaN(a) \/ F32IsNaN(b) THEN F32NaN
    ELSE IF F32IsInf(a)
    THEN (IF F32IsInf(b) THEN F32NaN ELSE F32Inf(XorSign(a, b)))
    ELSE IF F32IsInf(b) THEN F32Zero(XorSign(a, b))
    ELSE IF F32IsZero(b)
    THEN (IF F32IsZero(a) THEN F32NaN ELSE F32Inf(XorSign(a, b)))
    ELSE IF F32IsZero(a) THEN F32Zero(XorSign(a, b))
    ELSE
    LET la == 24 - BitLen(F32Sig(a))         \* left shifts normalising a, b
        lb == 24 - BitLen(F32Sig(b))
        sa == F32Sig(a) * Pow2(la)
        sb == F32Sig(b) * Pow2(lb)
        qr == DivBits(sa \div sb, sa % sb, sb, 25)
        p  == 2 * qr[1] + (IF qr[2] # 0 THEN 1 ELSE 0)   \* sticky bit appended
    IN  RoundPack(XorSign(a, b), p \div Pow2(24), p % Pow2(24),
                  (F32Exp(a) - la) - (F32Exp(b) - lb) - 26)

\* i16 as f32 (exact)
I16ToF32(i) == IF i >= 0 THEN RoundPack(0, 0, i, 0) ELSE RoundPack(1, 0, 0 - i, 0)

\* f32 as i16: truncation toward zero, saturating, NaN to 0
F32ToI16(x) ==
    IF F32IsNaN(x) THEN 0
    ELSE LET sh  == 150 - x.e
             mag == IF F32IsInf(x) \/ sh <= 0 THEN 32768
                    ELSE IF x.e = 0 \/ sh > 24 THEN 0
                    ELSE F32Sig(x) \div Pow2(sh)
         IN  IF x.s = 0 THEN (IF mag > 32767 THEN 32767 ELSE mag)
             ELSE (IF mag > 32768 THEN 0 - 32768 ELSE 0 - mag)

\* mutant: no clamp
F32Clamp_None(x, min, max) == x

\* f32::clamp(min, max)
F32Clamp(x, min, max) ==
    IF F32Lt(x, min) THEN min ELSE IF F32Gt(x, max) THEN max ELSE x

\* f64 as f32: round to nearest, ties to even
F64ToF32(x) ==
    IF x.e = 2047
    THEN (IF x.fh = 0 /\ x.fl = 0 THEN F32Inf(x.s)
          ELSE F32(x.s, 255, Pow2(22) + ((x.fh \div 8) % Pow2(22))))
    ELSE IF x.e = 0 THEN F32Zero(x.s)        \* below 2^-1022: far below f32
    ELSE
    \* significand 1.fh.fl as a 48-bit integer (hi, lo) plus a sticky bit:
    \* hi = 1 and the upper 23 fraction bits, lo = the next 24, rest = 5 bits
    LET hi     == Pow2(23) + x.fh \div 8
        lo     == (x.fh % 8) * Pow2(21) + x.fl \div 32
        sticky == IF x.fl % 32 # 0 THEN 1 ELSE 0
        lo1    == IF sticky = 1 /\ lo % 2 = 0 THEN lo + 1 ELSE lo
    IN  RoundPack(x.s, hi, lo1, (x.e - 1023) - 47)

\* mutant: the most significant byte first
I16ToLeBytes_BigEndian(i) ==
    LET u == IF i >= 0 THEN i ELSE i + 65536
    IN  <<u \div 256, u % 256>>

\* i16::to_le_bytes
I16ToLeBytes(i) ==
    LET u == IF i >= 0 THEN i ELSE i + 65536
    IN  <<u % 256, u \div 256>>

\* byteorder read_f64::<LittleEndian> of 8 bytes
ReadF64LE(b) ==
    F64(b[8] \div 128,
        (b[8] % 128) * 16 + b[7] \div 16,
        (b[7] % 16) * Pow2(22) + b[6] * Pow2(14) + b[5] * 64 + b[4] \div 4,
        (b[4] % 4) * Pow2(24) + b[3] * Pow2(16) + b[2] * 256 + b[1])

(***************************************************************************)
(* Option<&cpal::Device>: a reference into the slice is a position in it   *)
(* (0-based, as slice::get counts).                                        *)
(***************************************************************************)
None == [some |-> FALSE, idx |-> 0]

Some(i) == [some |-> TRUE, idx |-> i]

\* devices[i] for a 0-based i
DeviceAt(devs, i) == devs[i + 1]

\* mutant: a successful query counts as input support, whatever it lists
HasInputConfigs_AnyOk(d) == d.configs.ok

\* d.supported_input_configs().map(|c| c.count() > 0).unwrap_or(false)
HasInputConfigs(d) == IF d.configs.ok THEN d.configs.count > 0 ELSE FALSE

\* mutant: the name is matched without lowering its case
IsLoopbackName_CaseSensitive(d) ==
    IF d.name.ok
    THEN \E m \in 1..Len(loopback_names) : contains(d.name.val, loopback_names[m])
    ELSE FALSE

\* if let Ok(name) = device.name() { name.to_lowercase() contains any marker }
IsLoopbackName(d) ==
    IF d.name.ok
    THEN LET name_lower == to_lowercase(d.name.val)
         IN  \E m \in 1..Len(loopback_names) : contains(name_lower, loopback_names[m])
    ELSE FALSE

\* Iterator::find / the for loop with an early return: the first of the
\* matching positions (in list order), or None
FindFirst(matching) ==
    IF matching = {} THEN None
    ELSE Some(CHOOSE i \in matching : \A j \in matching : i <= j)

\* the 0-based positions of a slice
Positions(devs) == 0..(Len(devs) - 1)

find_loopback_device(devs) ==
    FindFirst({i \in Positions(devs) : IsLoopbackName(DeviceAt(devs, i))})

\* mutant: names are compared without regard to case
NameEquals_IgnoreCase(d, name) ==
    IF d.name.ok THEN to_lowercase(d.name.val) = to_lowercase(name) ELSE FALSE

\* d.name().map(|n| n == name).unwrap_or(false)
NameEquals(d, name) == IF d.name.ok THEN d.name.val = name ELSE FALSE

\* Option::or_else
OrElse(opt, alt) == IF opt.some THEN opt ELSE alt

\* mutant: an explicit index that selects nothing falls through to the
\* loopback heuristic and the first usable device
select_device_IndexFallback(devs, device_index, device_name) ==
    IF device_index.some /\ device_index.val < Len(devs)
         /\ HasInputConfigs(DeviceAt(devs, device_index.val))
    THEN Some(device_index.val)
    ELSE IF device_name.some
    THEN FindFirst({i \in Positions(devs) :
                      /\ NameEquals(DeviceAt(devs, i), device_name.val)
                      /\ HasInputConfigs(DeviceAt(devs, i))})
    ELSE OrElse(find_loopback_device(devs),
                FindFirst({i \in Positions(devs) : HasInputConfigs(DeviceAt(devs, i))}))

\* lib.rs:16-37
select_device(devs, device_index, device_name) ==
    IF device_index.some
    THEN \* devices.get(index).filter(has input configs)
         IF device_index.val < Len(devs) /\ HasInputConfigs(DeviceAt(devs, device_index.val))
         THEN Some(device_index.val)
         ELSE None
    ELSE IF device_name.some
    THEN FindFirst({i \in Positions(devs) :
                      /\ NameEquals(DeviceAt(devs, i), device_name.val)
                      /\ HasInputConfigs(DeviceAt(devs, i))})
    ELSE OrElse(find_loopback_device(devs),
                FindFirst({i \in Positions(devs) : HasInputConfigs(DeviceAt(devs, i))}))

(***************************************************************************)
(* Inputs of the selection check: every device list of at most MaxDevices  *)
(* devices over the names and query results below, and every criteria.     *)
(***************************************************************************)
MaxDevices == 3

NameMicrophone == <<"M","i","c","r","o","p","h","o","n","e">>
NameStereoMix  == <<"S","t","e","r","e","o"," ","M","i","x">>
NameStereoLow  == <<"s","t","e","r","e","o"," ","m","i","x">>
NameSpeakers   == <<"S","p","e","a","k","e","r","s">>
NameBlackHole  == <<"B","l","a","c","k","H","o","l","e"," ","2","c","h">>

NameOk(n) == [ok |-> TRUE, val |-> n]
NameErr   == [ok |-> FALSE, val |-> <<>>]

ConfigsOk(n) == [ok |-> TRUE, count |-> n]
ConfigsErr   == [ok |-> FALSE, count |-> 0]

DeviceNameResults ==
    {NameOk(NameMicrophone), NameOk(NameStereoMix), NameOk(NameStereoLow),
     NameOk(NameBlackHole), NameErr}

\* names a user may pass as --device-name (NameSpeakers is on no device)
QueryNames == {NameStereoMix, NameMicrophone, NameSpeakers}

DeviceConfigResults == {ConfigsOk(0), ConfigsOk(1), ConfigsErr}

DevicePool == [name : DeviceNameResults, configs : DeviceConfigResults]

DeviceLists == UNION {[1..n -> DevicePool] : n \in 0..MaxDevices}

NoIndex == [some |-> FALSE, val |-> 0]
NoName  == [some |-> FALSE, val |-> <<>>]

IndexOptions == {NoIndex} \cup {[some |-> TRUE, val |-> i] : i \in 0..MaxDevices}

NameOptions ==
    {NoName} \cup {[some |-> TRUE, val |-> n] : n \in QueryNames}

(***************************************************************************)
(* Program constants and the values the environment supplies.              *)
(***************************************************************************)
\* i16::MAX
I16_MAX == 32767

\* let mut buf = [0u8; 8]
BufLen == 8

F32One     == F32(0, 127, 0)         \*  1.0
F32NegOne  == F32(1, 127, 0)         \* -1.0
F32Half    == F32(0, 126, 0)         \*  0.5
F32OneHalf == F32(0, 127, 4194304)   \*  1.5
F32NegTenth == F32(1, 123, 5033165)  \* -0.1
F32ArgNaN  == F32(0, 255, 4194304)   \*  "NaN".parse::<f32>()

F64Zero == F64(0, 0, 0, 0)           \* 0.0
F64One  == F64(0, 1023, 0, 0)        \* 1.0

\* #[arg(long, default_value = "1.0")] volume
DefaultVolume == F32One

NoVolume == [some |-> FALSE, val |-> F32Zero(0)]

SomeVolume(v) == [some |-> TRUE, val |-> v]

MkArgs(v, list, index, name) ==
    [volume |-> v, list_devices |-> list, device_index |-> index, device_name |-> name]

IndexArg(i) == [some |-> TRUE, val |-> i]

NameArg(n) == [some |-> TRUE, val |-> n]

\* the command lines of the process check
ArgsPool ==
    { MkArgs(DefaultVolume, FALSE, NoIndex, NoName),
      MkArgs(F32Half, FALSE, NoIndex, NoName),
      MkArgs(F32ArgNaN, FALSE, NoIndex, NoName),
      MkArgs(F32OneHalf, FALSE, NoIndex, NoName),
      MkArgs(F32NegTenth, FALSE, IndexArg(0), NoName),
      MkArgs(DefaultVolume, TRUE, NoIndex, NoName),
      MkArgs(DefaultVolume, FALSE, IndexArg(2), NoName),
      MkArgs(DefaultVolume, FALSE, NoIndex, NameArg(NameSpeakers)) }

\* the device catalogs host.devices() may return
Catalogs ==
    { << [name |-> NameOk(NameMicrophone), configs |-> ConfigsOk(1)],
         [name |-> NameOk(NameStereoMix),  configs |-> ConfigsOk(1)],
         [name |-> NameOk(NameSpeakers),   configs |-> ConfigsErr] >>,
      << [name |-> NameOk(NameSpeakers),   configs |-> ConfigsErr] >> }

\* cpal::SampleFormat values default_input_config may report
SampleFormats == {"F32", "I16", "U16"}

\* control payloads: the little-endian f64 encodings of 0.42, 1.0, 1.5, -0.1,
\* NaN and the successor of 1.0
Payload042    == <<225, 122, 20, 174, 71, 225, 218, 63>>
PayloadOne    == <<0, 0, 0, 0, 0, 0, 240, 63>>
PayloadOneHalf == <<0, 0, 0, 0, 0, 0, 248, 63>>
PayloadNegTenth == <<154, 153, 153, 153, 153, 153, 185, 191>>
PayloadNaN    == <<0, 0, 0, 0, 0, 0, 248, 127>>
PayloadOneUlp == <<1, 0, 0, 0, 0, 0, 240, 63>>

\* longest datagram on the wire
MaxWire == 9

Pad(n) == [k \in 1..n |-> 0]

\* what may arrive on the control port: the six payloads, an empty datagram,
\* a 7-byte one, and the encoding of 0.42 followed by more bytes
WirePool ==
    {Payload042, PayloadOne, PayloadOneHalf, PayloadNegTenth, PayloadNaN, PayloadOneUlp}
    \cup {<<>>, SubSeq(Payload042, 1, 7)}
    \cup {Payload042 \o Pad(n) : n \in 1..(MaxWire - BufLen)}

\* captured buffers the audio subsystem may hand to the callback
DataPool(format) ==
    IF format = "F32"
    THEN {<<>>, <<F32One>>, <<F32Half, F32NegOne>>}
    ELSE {<<>>, <<0 - 32768>>, <<16384, 0 - 1>>}

(***************************************************************************)
(* Sample conversion (main.rs:147-149, 165-167).                           *)
(***************************************************************************)
\* mutant: the sample is not scaled by the volume
ConvertF32_NoVolume(sample, v) ==
    LET adjusted == F32Clamp(sample, F32NegOne, F32One)
    IN  F32ToI16(F32Mul(adjusted, I16ToF32(I16_MAX)))

\* the F32 callback: (sample * vol).clamp(-1.0, 1.0), scaled and cast
ConvertF32(sample, v) ==
    LET adjusted == F32Clamp(F32Mul(sample, v), F32NegOne, F32One)
    IN  F32ToI16(F32Mul(adjusted, I16ToF32(I16_MAX)))

\* the I16 callback: ((sample as f32 / i16::MAX as f32) * vol).clamp(-1.0, 1.0)
ConvertI16(sample, v) ==
    LET adjusted == F32Clamp(F32Mul(F32Div(I16ToF32(sample), I16ToF32(I16_MAX)), v),
                             F32NegOne, F32One)
    IN  F32ToI16(F32Mul(adjusted, I16ToF32(I16_MAX)))

(***************************************************************************)
(* main (main.rs:51-188).                                                  *)
(***************************************************************************)
Alive == mainPc # "exited"

\* std::process::exit(code), or main returning (Ok: 0, Err: 1)
Exit(code) ==
    /\ mainPc' = "exited"
    /\ exitCode' = code

ListenerInit ==
    /\ listenerPc = "unspawned"
    /\ datagram = <<>>
    /\ recv = [ok |-> FALSE, len |-> 0]
    /\ buf = [k \in 1..BufLen |-> 0]
    /\ received_volume = F64Zero

CallbackLocals == <<cbPc, data, vol, buffer, next_sample>>

CallbackIdle == <<"idle", <<>>, F32Zero(0), <<>>, 0>>

\* the callback returns: its locals are dropped
CallbackReturn ==
    /\ cbPc' = "idle"
    /\ data' = <<>>
    /\ vol' = F32Zero(0)
    /\ buffer' = <<>>
    /\ next_sample' = 0

CallbackInit ==
    /\ cbPc = "idle"
    /\ data = <<>>
    /\ vol = F32Zero(0)
    /\ buffer = <<>>
    /\ next_sample = 0
    /\ lastSend = "none"
    /\ audioSent = FALSE

RestInit ==
    /\ exitCode = 0
    /\ sample_format = "none"
    /\ stream = "none"
    /\ volume = NoVolume
    /\ mutex = "free"
    /\ ListenerInit
    /\ CallbackInit

Init ==
    /\ args \in ArgsPool
    /\ devices = <<>>
    /\ selected = None
    /\ mainPc = "check_volume"
    /\ RestInit

\* main.rs:54: args.volume < 0.0 || args.volume > 1.0
VolumeArgRejected(v) == F32Lt(v, F32Zero(0)) \/ F32Gt(v, F32One)

\* main.rs:54-57
MainCheckVolume ==
    /\ mainPc = "check_volume"
    /\ IF VolumeArgRejected(args.volume)
       THEN Exit(1)
       ELSE mainPc' = "devices" /\ UNCHANGED exitCode
    /\ UNCHANGED <<args, devices, selected, sample_format, stream,
                   volume, mutex, listenerVars, callbackVars>>

\* main.rs:59-74: host.devices()? and the listing mode
MainDevices ==
    /\ mainPc = "devices"
    /\ \E catalog \in Catalogs : devices' = catalog
    /\ IF args.list_devices
       THEN Exit(0)
       ELSE mainPc' = "select" /\ UNCHANGED exitCode
    /\ UNCHANGED <<args, selected, sample_format, stream,
                   volume, mutex, listenerVars, callbackVars>>

\* main.rs:60: host.devices()? fails
MainDevicesErr ==
    /\ mainPc = "devices"
    /\ Exit(1)
    /\ UNCHANGED <<args, devices, selected, sample_format, stream,
                   volume, mutex, listenerVars, callbackVars>>

\* main.rs:76-84
MainSelect ==
    /\ mainPc = "select"
    /\ selected' = select_device(devices, args.device_index, args.device_name)
    /\ IF selected'.some
       THEN mainPc' = "open" /\ UNCHANGED exitCode
       ELSE Exit(1)
    /\ UNCHANGED <<args, devices, sample_format, stream,
                   volume, mutex, listenerVars, callbackVars>>

\* main.rs:86-89: device.name()?, device.default_input_config()?
MainOpen ==
    /\ mainPc = "open"
    /\ DeviceAt(devices, selected.idx).name.ok
    /\ \E f \in SampleFormats : sample_format' = f
    /\ mainPc' = "create_volume"
    /\ UNCHANGED <<args, devices, selected, exitCode, stream,
                   volume, mutex, listenerVars, callbackVars>>

\* main.rs:86, 88: one of the two queries fails
MainOpenErr ==
    /\ mainPc = "open"
    /\ Exit(1)
    /\ UNCHANGED <<args, devices, selected, sample_format, stream,
                   volume, mutex, listenerVars, callbackVars>>

\* main.rs:96
MainCreateVolume ==
    /\ mainPc = "create_volume"
    /\ volume' = SomeVolume(args.volume)
    /\ mainPc' = "socket"
    /\ UNCHANGED <<args, devices, selected, exitCode, sample_format, stream,
                   mutex, listenerVars, callbackVars>>

\* main.rs:98-136: the audio socket is bound and connected, the listener spawned
MainSpawn ==
    /\ mainPc = "socket"
    /\ listenerPc' = "bind"
    /\ mainPc' = "build"
    /\ UNCHANGED <<args, devices, selected, exitCode, sample_format, stream,
                   volume, mutex, datagram, recv, buf, received_volume, callbackVars>>

\* main.rs:98-99: bind or connect fails
MainSocketErr ==
    /\ mainPc = "socket"
    /\ Exit(1)
    /\ UNCHANGED <<args, devices, selected, sample_format, stream,
                   volume, mutex, listenerVars, callbackVars>>

\* main.rs:140-179: the match on sample_format
MainBuild ==
    /\ mainPc = "build"
    /\ IF sample_format \in {"F32", "I16"}
       THEN stream' = "built" /\ mainPc' = "play" /\ UNCHANGED exitCode
       ELSE Exit(1) /\ UNCHANGED stream
    /\ UNCHANGED <<args, devices, selected, sample_format,
                   volume, mutex, listenerVars, callbackVars>>

\* main.rs:158, 174: build_input_stream(...)? fails
MainBuildErr ==
    /\ mainPc = "build"
    /\ sample_format \in {"F32", "I16"}
    /\ Exit(1)
    /\ UNCHANGED <<args, devices, selected, sample_format, stream,
                   volume, mutex, listenerVars, callbackVars>>

\* main.rs:181
MainPlay ==
    /\ mainPc = "play"
    /\ stream' = "playing"
    /\ mainPc' = "ctrl_c"
    /\ UNCHANGED <<args, devices, selected, exitCode, sample_format,
                   volume, mutex, listenerVars, callbackVars>>

\* main.rs:181: stream.play()? fails
MainPlayErr ==
    /\ mainPc = "play"
    /\ Exit(1)
    /\ UNCHANGED <<args, devices, selected, sample_format, stream,
                   volume, mutex, listenerVars, callbackVars>>

\* main.rs:185: the interrupt signal arrives
MainCtrlC ==
    /\ mainPc = "ctrl_c"
    /\ mainPc' = "pause"
    /\ UNCHANGED <<args, devices, selected, exitCode, sample_format, stream,
                   volume, mutex, listenerVars, callbackVars>>

\* main.rs:185: ctrl_c().await? fails
MainCtrlCErr ==
    /\ mainPc = "ctrl_c"
    /\ Exit(1)
    /\ UNCHANGED <<args, devices, selected, sample_format, stream,
                   volume, mutex, listenerVars, callbackVars>>

\* mutant: main returns on the signal without pausing the stream
MainPause_Skipped ==
    /\ mainPc = "pause"
    /\ mainPc' = "return"
    /\ UNCHANGED <<args, devices, selected, exitCode, sample_format, stream,
                   volume, mutex, listenerVars, callbackVars>>

\* main.rs:186
MainPause ==
    /\ mainPc = "pause"
    /\ stream' = "paused"
    /\ mainPc' = "return"
    /\ UNCHANGED <<args, devices, selected, exitCode, sample_format,
                   volume, mutex, listenerVars, callbackVars>>

\* main.rs:186: stream.pause()? fails
MainPauseErr ==
    /\ mainPc = "pause"
    /\ Exit(1)
    /\ UNCHANGED <<args, devices, selected, sample_format, stream,
                   volume, mutex, listenerVars, callbackVars>>

\* main.rs:187
MainReturn ==
    /\ mainPc = "return"
    /\ Exit(0)
    /\ UNCHANGED <<args, devices, selected, sample_format, stream,
                   volume, mutex, listenerVars, callbackVars>>

(***************************************************************************)
(* The control listener task (main.rs:105-136).                            *)
(***************************************************************************)
\* main.rs:107-115: the control socket is bound
ListenerBind ==
    /\ Alive
    /\ listenerPc = "bind"
    /\ listenerPc' = "recv"
    /\ UNCHANGED <<mainVars, volume, mutex, datagram, recv, buf, received_volume,
                   callbackVars>>

\* mutant: a failed bind terminates the process
ListenerBindErr_Exits ==
    /\ Alive
    /\ listenerPc = "bind"
    /\ listenerPc' = "returned"
    /\ Exit(1)
    /\ UNCHANGED <<args, devices, selected, sample_format, stream,
                   volume, mutex, datagram, recv, buf, received_volume,
                   callbackVars>>

\* main.rs:109-112: binding fails and the task returns
ListenerBindErr ==
    /\ Alive
    /\ listenerPc = "bind"
    /\ listenerPc' = "returned"
    /\ UNCHANGED <<mainVars, volume, mutex, datagram, recv, buf, received_volume,
                   callbackVars>>

\* what recv_from copies into buf: the first BufLen bytes of the datagram
Received(old, wire) ==
    [k \in 1..BufLen |-> IF k <= Len(wire) THEN wire[k] ELSE old[k]]

\* main.rs:119: a datagram that fits the buffer arrives
ListenerRecv ==
    /\ Alive
    /\ listenerPc = "recv"
    /\ \E wire \in WirePool :
         /\ Len(wire) <= BufLen
         /\ datagram' = wire
         /\ buf' = Received(buf, wire)
         /\ recv' = [ok |-> TRUE, len |-> Len(wire)]
    /\ listenerPc' = "handle"
    /\ UNCHANGED <<mainVars, volume, mutex, received_volume, callbackVars>>

\* main.rs:119: a datagram longer than the buffer arrives; recvfrom(2)
\* truncates it to the buffer and reports the bytes copied
ListenerRecvTruncated ==
    /\ Alive
    /\ listenerPc = "recv"
    /\ \E wire \in WirePool :
         /\ Len(wire) > BufLen
         /\ datagram' = wire
         /\ buf' = Received(buf, wire)
         /\ recv' = [ok |-> TRUE, len |-> BufLen]
    /\ listenerPc' = "handle"
    /\ UNCHANGED <<mainVars, volume, mutex, received_volume, callbackVars>>

\* main.rs:119: a datagram longer than the buffer arrives and the platform
\* reports it as an error (WSAEMSGSIZE)
ListenerRecvTooLong ==
    /\ Alive
    /\ listenerPc = "recv"
    /\ \E wire \in WirePool :
         /\ Len(wire) > BufLen
         /\ datagram' = wire
         /\ buf' = Received(buf, wire)
    /\ recv' = [ok |-> FALSE, len |-> 0]
    /\ listenerPc' = "handle"
    /\ UNCHANGED <<mainVars, volume, mutex, received_volume, callbackVars>>

\* main.rs:119: recv_from fails with a socket error
ListenerRecvErr ==
    /\ Alive
    /\ listenerPc = "recv"
    /\ datagram' = <<>>
    /\ recv' = [ok |-> FALSE, len |-> 0]
    /\ listenerPc' = "handle"
    /\ UNCHANGED <<mainVars, volume, mutex, buf, received_volume, callbackVars>>

\* mutant: the upper bound is not checked
VolumeInRange_NoUpper(v) == F64Ge(v, F64Zero)

\* mutant: the upper bound is exclusive
VolumeInRange_Exclusive(v) == F64Ge(v, F64Zero) /\ F64Lt(v, F64One)

\* main.rs:124: received_volume >= 0.0 && received_volume <= 1.0
VolumeInRange(v) == F64Ge(v, F64Zero) /\ F64Le(v, F64One)

\* the loop body ends and the next recv_from begins: len and received_volume
\* go out of scope, and the datagram is gone
ListenerLoop ==
    /\ listenerPc' = "recv"
    /\ datagram' = <<>>
    /\ recv' = [ok |-> FALSE, len |-> 0]
    /\ received_volume' = F64Zero

\* mutant: a receive error ends the task
ListenerHandle_ErrEnds ==
    /\ Alive
    /\ listenerPc = "handle"
    /\ IF ~recv.ok
       THEN listenerPc' = "returned" /\ UNCHANGED <<datagram, recv, received_volume>>
       ELSE IF recv.len = 8 /\ VolumeInRange(ReadF64LE(buf))
       THEN /\ received_volume' = ReadF64LE(buf)
            /\ listenerPc' = "lock"
            /\ UNCHANGED <<datagram, recv>>
       ELSE ListenerLoop
    /\ UNCHANGED <<mainVars, volume, mutex, buf, callbackVars>>

\* main.rs:120-134: the match arms up to the lock
ListenerHandle ==
    /\ Alive
    /\ listenerPc = "handle"
    /\ IF recv.ok /\ recv.len = 8 /\ VolumeInRange(ReadF64LE(buf))
       THEN /\ received_volume' = ReadF64LE(buf)
            /\ listenerPc' = "lock"
            /\ UNCHANGED <<datagram, recv>>
       ELSE ListenerLoop
    /\ UNCHANGED <<mainVars, volume, mutex, buf, callbackVars>>

\* main.rs:125: volume_clone.lock().unwrap()
ListenerLock ==
    /\ Alive
    /\ listenerPc = "lock"
    /\ mutex = "free"
    /\ mutex' = "listener"
    /\ listenerPc' = "store"
    /\ UNCHANGED <<mainVars, volume, datagram, recv, buf, received_volume, callbackVars>>

\* main.rs:125-126: the store through the guard, which is dropped with the
\* statement, and the log line
ListenerStore ==
    /\ Alive
    /\ listenerPc = "store"
    /\ volume' = SomeVolume(F64ToF32(received_volume))
    /\ mutex' = "free"
    /\ ListenerLoop
    /\ UNCHANGED <<mainVars, buf, callbackVars>>

(***************************************************************************)
(* The capture callback (main.rs:143-156, 161-172).                        *)
(***************************************************************************)
\* the audio subsystem delivers a captured buffer
CallbackInvoke ==
    /\ Alive
    /\ stream = "playing"
    /\ cbPc = "idle"
    /\ \E d \in DataPool(sample_format) : data' = d
    /\ cbPc' = "lock"
    /\ UNCHANGED <<mainVars, volume, mutex, listenerVars, vol, buffer, next_sample,
                   lastSend, audioSent>>

\* main.rs:144, 162: volume.lock().unwrap()
CallbackLock ==
    /\ Alive
    /\ cbPc = "lock"
    /\ mutex = "free"
    /\ mutex' = "callback"
    /\ cbPc' = "read"
    /\ UNCHANGED <<mainVars, volume, listenerVars, data, vol, buffer, next_sample,
                   lastSend, audioSent>>

\* mutant: the guard lives as long as the callback runs
CallbackRead_KeepsGuard ==
    /\ Alive
    /\ cbPc = "read"
    /\ vol' = volume.val
    /\ buffer' = <<>>
    /\ next_sample' = 1
    /\ cbPc' = "loop"
    /\ UNCHANGED <<mainVars, volume, mutex, listenerVars, data, lastSend, audioSent>>

\* main.rs:144-145, 162-163: the snapshot, the guard dropped, Vec::new()
CallbackRead ==
    /\ Alive
    /\ cbPc = "read"
    /\ vol' = volume.val
    /\ mutex' = "free"
    /\ buffer' = <<>>
    /\ next_sample' = 1
    /\ cbPc' = "loop"
    /\ UNCHANGED <<mainVars, volume, listenerVars, data, lastSend, audioSent>>

\* the 16-bit sample the running callback computes for one input sample
Convert(sample, v) ==
    IF sample_format = "F32" THEN ConvertF32(sample, v) ELSE ConvertI16(sample, v)

\* mutant: every iteration reads the shared volume again
CallbackSample_Reread ==
    /\ Alive
    /\ cbPc = "loop"
    /\ next_sample <= Len(data)
    /\ buffer' = buffer \o I16ToLeBytes(Convert(data[next_sample], volume.val))
    /\ next_sample' = next_sample + 1
    /\ UNCHANGED <<mainVars, volume, mutex, listenerVars, cbPc, data, vol,
                   lastSend, audioSent>>

\* main.rs:146-150, 164-168: one iteration of the for loop
CallbackSample ==
    /\ Alive
    /\ cbPc = "loop"
    /\ next_sample <= Len(data)
    /\ buffer' = buffer \o I16ToLeBytes(Convert(data[next_sample], vol))
    /\ next_sample' = next_sample + 1
    /\ UNCHANGED <<mainVars, volume, mutex, listenerVars, cbPc, data, vol,
                   lastSend, audioSent>>

\* mutant: the buffer is handed to try_send without the emptiness test
CallbackLoopEnd_SendsEmpty ==
    /\ Alive
    /\ cbPc = "loop"
    /\ next_sample > Len(data)
    /\ cbPc' = "send"
    /\ UNCHANGED <<data, vol, buffer, next_sample>>
    /\ UNCHANGED <<mainVars, volume, mutex, listenerVars, lastSend, audioSent>>

\* main.rs:151, 169: the loop is over; an empty buffer ends the callback
CallbackLoopEnd ==
    /\ Alive
    /\ cbPc = "loop"
    /\ next_sample > Len(data)
    /\ IF buffer # <<>>
       THEN cbPc' = "send" /\ UNCHANGED <<data, vol, buffer, next_sample>>
       ELSE CallbackReturn
    /\ UNCHANGED <<mainVars, volume, mutex, listenerVars, lastSend, audioSent>>

\* main.rs:154, 170: try_send succeeds and the callback returns
CallbackSendOk ==
    /\ Alive
    /\ cbPc = "send"
    /\ lastSend' = "ok"
    /\ audioSent' = TRUE
    /\ CallbackReturn
    /\ UNCHANGED <<mainVars, volume, mutex, listenerVars>>

\* mutant: a failed send leaves the buffer in place to be sent again
CallbackSendErr_Retry ==
    /\ Alive
    /\ cbPc = "send"
    /\ lastSend' = "err"
    /\ UNCHANGED <<mainVars, volume, mutex, listenerVars, cbPc, data, vol, buffer,
                   next_sample, audioSent>>

\* main.rs:154, 170: try_send fails; let _ = drops the error
CallbackSendErr ==
    /\ Alive
    /\ cbPc = "send"
    /\ lastSend' = "err"
    /\ CallbackReturn
    /\ UNCHANGED <<mainVars, volume, mutex, listenerVars, audioSent>>

Next ==
    \/ MainCheckVolume \/ MainDevices \/ MainDevicesErr \/ MainSelect
    \/ MainOpen \/ MainOpenErr \/ MainCreateVolume \/ MainSpawn \/ MainSocketErr
    \/ MainBuild \/ MainBuildErr \/ MainPlay \/ MainPlayErr
    \/ MainCtrlC \/ MainCtrlCErr \/ MainPause \/ MainPauseErr \/ MainReturn
    \/ ListenerBind \/ ListenerBindErr
    \/ ListenerRecv \/ ListenerRecvTruncated \/ ListenerRecvTooLong \/ ListenerRecvErr
    \/ ListenerHandle \/ ListenerLock \/ ListenerStore
    \/ CallbackInvoke \/ CallbackLock \/ CallbackRead \/ CallbackSample
    \/ CallbackLoopEnd \/ CallbackSendOk \/ CallbackSendErr

Spec == Init /\ [][Next]_vars

\* scheduling: a context that holds the lock and can take its step takes it
\* (the store and the read do not wait for anything), and a context waiting
\* for the lock gets it if the lock is free again and again; nothing else is
\* assumed: the environment (datagrams, captured buffers, the interrupt
\* signal) need not act
Fairness ==
    /\ SF_vars(ListenerLock)
    /\ WF_vars(ListenerStore)
    /\ SF_vars(CallbackLock)
    /\ WF_vars(CallbackRead)

\* the streaming phase on its own: the process of the default command line
\* right after stream.play() (main.rs:181), the listener spawned but not yet
\* run
InitStreaming ==
    /\ args = MkArgs(DefaultVolume, FALSE, NoIndex, NoName)
    /\ devices \in Catalogs /\ Len(devices) = 3
    /\ selected = select_device(devices, args.device_index, args.device_name)
    /\ mainPc = "ctrl_c"
    /\ exitCode = 0
    /\ sample_format \in {"F32", "I16"}
    /\ stream = "playing"
    /\ volume = SomeVolume(args.volume)
    /\ mutex = "free"
    /\ listenerPc = "bind"
    /\ datagram = <<>>
    /\ recv = [ok |-> FALSE, len |-> 0]
    /\ buf = [k \in 1..BufLen |-> 0]
    /\ received_volume = F64Zero
    /\ CallbackInit

NextStreaming ==
    \/ MainCtrlC \/ MainCtrlCErr \/ MainPause \/ MainPauseErr \/ MainReturn
    \/ ListenerBind \/ ListenerBindErr
    \/ ListenerRecv \/ ListenerRecvTruncated \/ ListenerRecvTooLong \/ ListenerRecvErr
    \/ ListenerHandle \/ ListenerLock \/ ListenerStore
    \/ CallbackInvoke \/ CallbackLock \/ CallbackRead \/ CallbackSample
    \/ CallbackLoopEnd \/ CallbackSendOk \/ CallbackSendErr

SpecStreaming == InitStreaming /\ [][NextStreaming]_vars /\ Fairness

(***************************************************************************)
(* The selection check: select_device applied to every input.              *)
(***************************************************************************)
InitSelect ==
    /\ devices \in DeviceLists
    /\ args \in [volume : {DefaultVolume}, list_devices : {FALSE},
                 device_index : IndexOptions, device_name : NameOptions]
    /\ selected = None
    /\ mainPc = "select"
    /\ RestInit

CallSelect ==
    /\ mainPc = "select"
    /\ selected' = select_device(devices, args.device_index, args.device_name)
    /\ mainPc' = "selected"
    /\ UNCHANGED <<args, devices, exitCode, sample_format, stream,
                   volume, mutex, listenerVars, callbackVars>>

NextSelect == CallSelect

SpecSelect == InitSelect /\ [][NextSelect]_vars

(***************************************************************************)
(* Device selection claims (checked under SpecSelect).                     *)
(***************************************************************************)
\* what the claims call "reports at least one supported input configuration"
ReportsInput(devs, k) == devs[k].configs.ok /\ devs[k].configs.count >= 1

\* the markers the claims name: "stereo mix", "loopback", "blackhole", "soundflower"
ClaimedMarkers ==
    { <<"s","t","e","r","e","o"," ","m","i","x">>,
      <<"l","o","o","p","b","a","c","k">>,
      <<"b","l","a","c","k","h","o","l","e">>,
      <<"s","o","u","n","d","f","l","o","w","e","r">> }

\* what the claims call "the name contains a loopback marker, case-insensitively"
MentionsMarker(devs, k) ==
    /\ devs[k].name.ok
    /\ \E marker \in ClaimedMarkers :
         contains(to_lowercase(devs[k].name.val), to_lowercase(marker))

SelectionDone == mainPc = "selected"

C3_LoopbackFirst ==
    (SelectionDone /\ ~args.device_index.some /\ ~args.device_name.some
       /\ \E k \in 1..Len(devices) : MentionsMarker(devices, k)) =>
        /\ selected.some
        /\ MentionsMarker(devices, selected.idx + 1)
        /\ \A j \in 1..selected.idx : ~MentionsMarker(devices, j)

\* C3 witness: the list of the spec's scenario shape: an input-capable
\* microphone first, then "Stereo Mix"; the second device is returned.
C3_Witness ==
    /\ SelectionDone
    /\ ~args.device_index.some /\ ~args.device_name.some
    /\ Len(devices) >= 2
    /\ devices[1] = [name |-> NameOk(NameMicrophone), configs |-> ConfigsOk(1)]
    /\ devices[2] = [name |-> NameOk(NameStereoMix), configs |-> ConfigsOk(1)]
    /\ selected = Some(1)

C4_WitnessNone ==
    /\ SelectionDone
    /\ ~args.device_index.some /\ ~args.device_name.some
    /\ Len(devices) = 3
    /\ \A k \in 1..3 : ~MentionsMarker(devices, k) /\ ~ReportsInput(devices, k)
    /\ selected = None

(***************************************************************************)
(* Volume, control listener and capture callback claims (checked under     *)
(* Spec).                                                                  *)
(***************************************************************************)
\* an f32 that is a number of [0.0, 1.0]
InUnit32(x) == ~F32IsNaN(x) /\ 0 <= F32Ord(x) /\ F32Ord(x) <= F32Ord(F32One)

\* an f64 that is not a number of [0.0, 1.0]
OutsideUnit64(x) == F64IsNaN(x) \/ F64Lt(x, F64Zero) \/ F64Lt(F64One, x)

\* 0.42 as f32 (0x3ED70A3D)
F32_042 == F32(0, 125, 5704253)

\* the step is the listener's store into Volume State
ListenerCommits == listenerPc = "store" /\ listenerPc' = "recv"

\* the step is the listener deciding about the datagram it received
ListenerDecides == listenerPc = "handle" /\ listenerPc' # "handle"

\* C5: whenever the shared Volume exists its value lies in [0.0, 1.0], and a
\* startup volume outside [0.0, 1.0] never leads to a playing stream.
C5_VolumeInUnit ==
    /\ volume.some => InUnit32(volume.val)
    /\ ~InUnit32(args.volume) => stream # "playing"

\* C6: a control datagram whose length on the wire is not exactly 8 bytes is
\* discarded: no step taken while the listener processes it changes Volume.
C6_WrongLengthDiscarded ==
    [][(listenerPc \in {"handle", "lock", "store"} /\ Len(datagram) # 8)
         => volume' = volume]_vars

\* C7: an 8-byte control datagram decoding to a value outside [0.0, 1.0]
\* (1.5, -0.1, NaN, ...) is rejected: Volume keeps its value and the
\* listener goes on to the next receive; every value the listener commits
\* lies in [0.0, 1.0].
C7_OutOfRangeRejected ==
    [][/\ (listenerPc = "handle" /\ Len(datagram) = 8
             /\ (OutsideUnit64(ReadF64LE(datagram))
                   \/ datagram \in {PayloadOneHalf, PayloadNegTenth}))
          => (volume' = volume /\ listenerPc' \in {"handle", "recv"})
       /\ ListenerCommits => InUnit32(volume'.val)]_vars

\* C7 witness: after 0.42 was committed over another startup volume, the
\* datagram 1.5 has been received and handled, and Volume is still 0.42.
C7_Witness ==
    /\ listenerPc = "recv"
    /\ buf = PayloadOneHalf
    /\ volume = SomeVolume(F32_042)
    /\ args.volume # F32_042

\* C8: an 8-byte control datagram encoding a double v of [0.0, 1.0] is
\* accepted: the listener commits v converted to f32 (0.42 becomes the f32
\* 0.42, 1.0 stays 1.0), and Volume changes by no other step.
C8_InRangeAccepted ==
    [][/\ (ListenerDecides /\ Len(datagram) = 8
             /\ (~OutsideUnit64(ReadF64LE(datagram))
                   \/ datagram \in {Payload042, PayloadOne}))
          => listenerPc' = "lock"
       /\ (ListenerCommits /\ Len(datagram) = 8)
          => /\ volume' = SomeVolume(F64ToF32(ReadF64LE(datagram)))
             /\ datagram = Payload042 => volume'.val = F32_042
             /\ datagram = PayloadOne => volume'.val = F32One
       /\ (volume.some /\ volume' # volume) => ListenerCommits]_vars

\* C8 witness: the datagram 0.42 was committed over another startup volume
\* and a later callback invocation has taken it as its snapshot.
C8_Witness ==
    /\ listenerPc = "recv"
    /\ buf = Payload042
    /\ volume = SomeVolume(F32_042)
    /\ args.volume # F32_042
    /\ cbPc = "loop"
    /\ vol = F32_042

\* the step is a try_send of the capture callback that fails
SendFails == cbPc = "send" /\ callbackVars' # callbackVars /\ lastSend' = "err"

\* C9: a failed send is swallowed: the callback returns with its buffer
\* dropped (no retry, nothing retained), nothing else of the process changes
\* (no error surfaces, Volume is unchanged), and the next invocation can
\* start exactly as after a successful send.
C9_SendFailureSwallowed ==
    [][/\ SendFails =>
            /\ CallbackLocals' = CallbackIdle
            /\ audioSent' = audioSent
            /\ UNCHANGED <<mainVars, volume, mutex, listenerVars>>
       /\ (cbPc = "idle" /\ lastSend = "err" /\ Alive /\ stream = "playing")
            => /\ CallbackLocals = CallbackIdle
               /\ ENABLED CallbackInvoke]_vars

\* C9 witness: after a failed send (and no successful one) the next
\* invocation has converted its buffer and stands at its own send.
C9_Witness ==
    /\ lastSend = "err"
    /\ cbPc = "send"
    /\ buffer # <<>>
    /\ ~audioSent

\* the run has a configuration error: startup volume outside [0.0, 1.0], no
\* device satisfying the criteria, or an unsupported sample format
ConfigError ==
    \/ ~InUnit32(args.volume)
    \/ (mainPc \notin {"check_volume", "devices", "select"} /\ ~args.list_devices
          /\ devices # <<>> /\ ~selected.some)
    \/ sample_format \notin {"none", "F32", "I16"}

\* C10: on a run with a configuration error the stream is never played, no
\* audio datagram is sent, and the process exits with a nonzero code.
C10_ConfigErrorsExit ==
    ConfigError =>
        /\ stream \notin {"playing", "paused"}
        /\ ~audioSent
        /\ mainPc = "exited" => exitCode # 0

(***************************************************************************)
(* Shutdown claims (checked under Spec).                                   *)
(***************************************************************************)
\* the interrupt signal has been received: main is past ctrl_c().await
Interrupted == mainPc \in {"pause", "return"}

\* the control listener is inside its receive loop
ListenerLooping == listenerPc \in {"recv", "handle", "lock", "store"}

\* C11 (as claimed): once the interrupt signal has been received, the
\* process exits only with the capture stream paused and with exit code 0.
C11_InterruptExitsZero ==
    [][(Interrupted /\ mainPc' = "exited")
         => (stream' = "paused" /\ exitCode' = 0)]_vars

\* C11 (amended): after the interrupt signal, if stream.pause() succeeds the
\* stream is paused before main returns and the exit code is 0, and if it
\* fails the process exits at once with a nonzero code and the stream
\* unpaused; no capture callback starts while the stream is paused; the
\* shutdown steps of main leave the control listener alone, and a listener
\* that is in its loop never leaves it while the process lives.
C11_GracefulShutdown ==
    [][/\ (mainPc = "return") => (stream = "paused")
       /\ (mainPc = "return" /\ mainPc' # mainPc)
             => (mainPc' = "exited" /\ exitCode' = 0 /\ stream' = "paused")
       /\ (mainPc = "pause" /\ mainPc' = "exited")
             => (exitCode' # 0 /\ stream' = "playing")
       /\ (mainPc = "pause" /\ mainPc' \notin {"pause", "exited"})
             => (mainPc' = "return" /\ stream' = "paused")
       /\ (stream = "paused" /\ cbPc = "idle") => (cbPc' = "idle")
       /\ (mainPc \in {"ctrl_c", "pause", "return"} /\ mainPc' # mainPc)
             => (listenerVars' = listenerVars)
       /\ ListenerLooping => ListenerLooping']_vars

\* C11 witness: the process has exited with code 0 after streaming: the
\* stream is paused, audio was sent, and the listener was still in its loop.
C11_Witness ==
    /\ mainPc = "exited" /\ exitCode = 0
    /\ stream = "paused"
    /\ audioSent
    /\ ListenerLooping

(***************************************************************************)
(* Capture pipeline claims (checked under Spec).                           *)
(***************************************************************************)
\* the signed 16-bit integer whose little-endian encoding is the bytes b0, b1
DecodeI16LE(b0, b1) ==
    LET u == b0 + 256 * b1
    IN  IF u >= 32768 THEN u - 65536 ELSE u

\* the samples of data the running invocation has converted so far
Converted == 1..(next_sample - 1)

\* C12: while an invocation builds or sends its buffer, the buffer holds two
\* bytes per converted sample, bytes 2k-1 and 2k (counting from 1) being the
\* little-endian signed 16-bit encoding of the result for the k-th sample
\* of data, in the order of data; when it is sent its length is twice the
\* number of captured samples; between invocations the buffer is empty.
C12_FrameLayout ==
    /\ cbPc \in {"loop", "send"} =>
          /\ Len(buffer) = 2 * (next_sample - 1)
          /\ \A k \in Converted :
                /\ buffer[2 * k - 1] \in 0..255
                /\ buffer[2 * k] \in 0..255
                /\ DecodeI16LE(buffer[2 * k - 1], buffer[2 * k])
                     = Convert(data[k], vol)
    /\ cbPc = "send" => Len(buffer) = 2 * Len(data)
    /\ cbPc \in {"idle", "lock", "read"} => buffer = <<>>

\* C12 witness: the two float samples 0.5, -1.0 at volume 1.0 are about to
\* be sent as 16383, -32767: bytes FF 3F 01 80.
C12_Witness ==
    /\ cbPc = "send"
    /\ sample_format = "F32"
    /\ data = <<F32Half, F32NegOne>>
    /\ vol = F32One
    /\ buffer = <<255, 63, 1, 128>>

(***************************************************************************)
(* The conversion check: one iteration of the callback's loop applied to   *)
(* every sample and volume of the pools below, in a streaming process.     *)
(***************************************************************************)
\* volumes of [0.0, 1.0] the shared Volume can hold (each is the f32 cast of
\* a control value): 0.0, -0.0, the least positive f32, 0.1, 1/3, 0.42, 0.5,
\* 0.6411757, 0.75, the predecessor of 1.0, 1.0
ConvertVolumes ==
    { F32Zero(0), F32Zero(1), F32(0, 0, 1), F32(0, 123, 5033165),
      F32(0, 125, 2796203), F32(0, 125, 5704253), F32Half,
      F32(0, 126, 2368535), F32(0, 126, 4194304), F32(0, 126, 8388607), F32One }

\* captured f32 samples: 0.0, -0.0, the least positive f32, 0.015655994,
\* -0.3, 1/3, 0.5, 0.75470966, 0.999, the predecessor of 1.0, 1.0, -1.0, and
\* outside [-1.0, 1.0]: -1.5, 2.0, f32::MAX, the infinities and NaN
ConvertSamplesF32 ==
    { F32Zero(0), F32Zero(1), F32(0, 0, 1), F32(0, 121, 16640),
      F32(1, 125, 1677722), F32(0, 125, 2796203), F32Half,
      F32(0, 126, 4273319), F32(0, 126, 8371831), F32(0, 126, 8388607),
      F32One, F32NegOne,
      F32(1, 127, 4194304), F32(0, 128, 0), F32(0, 254, 8388607),
      F32Inf(0), F32Inf(1), F32NaN }

\* captured i16 samples
ConvertSamplesI16 ==
    { 0 - 32768, 0 - 32767, 0 - 16384, 0 - 513, 0 - 1, 0, 1, 513, 12345, 16384,
      32766, 32767 }

\* a streaming process whose callback has taken its snapshot and is about to
\* convert the one sample of its buffer
InitConvert ==
    /\ args = MkArgs(DefaultVolume, FALSE, NoIndex, NoName)
    /\ devices \in Catalogs /\ Len(devices) = 3
    /\ selected = Some(1)
    /\ mainPc = "ctrl_c"
    /\ exitCode = 0
    /\ sample_format \in {"F32", "I16"}
    /\ stream = "playing"
    /\ \E v \in ConvertVolumes : volume = SomeVolume(v) /\ vol = v
    /\ mutex = "free"
    /\ listenerPc = "recv"
    /\ datagram = <<>>
    /\ recv = [ok |-> FALSE, len |-> 0]
    /\ buf = PayloadOne
    /\ received_volume = F64Zero
    /\ cbPc = "loop"
    /\ \E sample \in (IF sample_format = "F32" THEN ConvertSamplesF32
                                               ELSE ConvertSamplesI16) :
          data = <<sample>>
    /\ buffer = <<>>
    /\ next_sample = 1
    /\ lastSend = "none"
    /\ audioSent = FALSE

NextConvert == CallbackSample

SpecConvert == InitConvert /\ [][NextConvert]_vars

(***************************************************************************)
(* Numerical claims (checked under SpecConvert).                           *)
(***************************************************************************)
\* a natural number as its base-4096 digits, least significant first:
\* the digits of ds (each below 2^31 - 4096) with the carries propagated
RECURSIVE Carry(_, _)
Carry(ds, c) ==
    IF ds = <<>>
    THEN (IF c = 0 THEN <<>> ELSE <<c % 4096>> \o Carry(<<>>, c \div 4096))
    ELSE LET t == Head(ds) + c
         IN  <<t % 4096>> \o Carry(Tail(ds), t \div 4096)

Digit(ds, i) == IF i >= 1 /\ i <= Len(ds) THEN ds[i] ELSE 0

\* the digits of 32767 * sig(a) * sig(b), for finite a, b
ScaledProduct(a, b) ==
    LET sa == F32Sig(a)  sb == F32Sig(b)
        ah == sa \div 4096  al == sa % 4096
        bh == sb \div 4096  bl == sb % 4096
        p  == Carry(<<al * bl, ah * bl + al * bh, ah * bh>>, 0)
    IN  Carry([i \in 1..Len(p) |-> 32767 * p[i]], 0)

\* |32767 * a * b| for finite a, b of magnitude at most 1.0, as
\* [floor |-> its integer part, frac |-> whether it has a fractional part]
ExactScaled(a, b) ==
    LET X  == ScaledProduct(a, b)
        d  == 0 - (F32Exp(a) + F32Exp(b))      \* the value is X / 2^d
        w  == d \div 12
        b2 == Pow2(d % 12)
        top == Digit(X, w + 1) + 4096 * Digit(X, w + 2)
                 + 4096 * 4096 * Digit(X, w + 3)
    IN  [floor |-> top \div b2,
         frac  |-> (top % b2 # 0) \/ (\E i \in 1..Len(X) : i <= w /\ X[i] # 0)]

\* a non-NaN f32 of [-1.0, 1.0]
InUnitSample(x) ==
    /\ ~F32IsNaN(x)
    /\ F32Ord(F32NegOne) <= F32Ord(x) /\ F32Ord(x) <= F32Ord(F32One)

\* |q - 32767 * s * v| < 1, exactly: q / 32767 is within one quantization
\* step of s * v
WithinOneStep(s, v, q) ==
    LET x    == ExactScaled(s, v)
        neg  == XorSign(s, v) = 1
        zero == x.floor = 0 /\ ~x.frac
        mag  == IF q >= 0 THEN q ELSE 0 - q
    IN  IF q = 0 THEN x.floor = 0
        ELSE /\ ~zero
             /\ (q < 0) = neg
             /\ x.floor <= mag
             /\ x.floor >= mag \/ (x.floor = mag - 1 /\ x.frac)

\* the normalized sample of the claims: the f32 sample itself, or the i16
\* sample divided by 32767 in f32
Normalized(sample) ==
    IF sample_format = "F32" THEN sample
    ELSE F32Div(I16ToF32(sample), I16ToF32(32767))

\* the iteration of the loop has run: the buffer holds the encoded sample
SampleEncoded == cbPc = "loop" /\ next_sample = 2 /\ Len(buffer) = 2

Encoded == DecodeI16LE(buffer[1], buffer[2])

\* C13: for a normalized sample s of [-1.0, 1.0] and a volume of [0.0, 1.0]
\* the stored 16-bit integer q satisfies |q / 32767 - s * volume| < 1 / 32767;
\* the float sample 1.0 at volume 0.5 is stored as 16383 or 16384.
C13_RoundTrip ==
    (SampleEncoded /\ InUnitSample(Normalized(data[1])) /\ InUnit32(vol)) =>
        /\ WithinOneStep(Normalized(data[1]), vol, Encoded)
        /\ (sample_format = "F32" /\ data[1] = F32One /\ vol = F32Half)
              => Encoded \in {16383, 16384}

\* C13 witness: the float sample 0.75470966 at volume 0.6411757, whose exact
\* scaled product is 15855.99998, is stored as 15855.
C13_Witness ==
    /\ SampleEncoded
    /\ sample_format = "F32"
    /\ data[1] = F32(0, 126, 4273319)
    /\ vol = F32(0, 126, 2368535)
    /\ ExactScaled(data[1], vol) = [floor |-> 15855, frac |-> TRUE]
    /\ Encoded = 15855

(***************************************************************************)
(* Concurrency claims (checked under Spec).                                *)
(***************************************************************************)
\* the step is the callback taking its snapshot of the volume
TakesSnapshot == cbPc = "read" /\ cbPc' = "loop"

\* every sample converted so far was scaled by the snapshot vol
ScaledBySnapshot ==
    \A k \in Converted :
        <<buffer[2 * k - 1], buffer[2 * k]>> = I16ToLeBytes(Convert(data[k], vol))

\* C14: an invocation reads Volume State once, while it holds the lock and
\* before any sample is processed; the snapshot is the value Volume State
\* holds at that moment, it does not change until the invocation returns,
\* and every sample of the buffer is scaled by it whatever the listener
\* commits in the meantime.
C14_SingleSnapshot ==
    /\ [](cbPc \in {"loop", "send"} => ScaledBySnapshot)
    /\ [][/\ TakesSnapshot =>
               /\ mutex = "callback"
               /\ volume.some /\ vol' = volume.val
               /\ buffer' = <<>> /\ next_sample' = 1
          /\ (vol' # vol) => (TakesSnapshot \/ cbPc' = "idle")
          /\ (cbPc \in {"loop", "send"} /\ cbPc' \in {"loop", "send"})
               => (vol' = vol /\ data' = data)
          /\ (cbPc' = "loop" /\ cbPc # "loop") => TakesSnapshot]_vars

\* C14 witness: a two-sample buffer is about to be sent, scaled by a
\* snapshot that differs from what Volume State holds now: the listener
\* committed a volume while the buffer was being processed, and that volume
\* would have given other bytes.
C14_Witness ==
    /\ cbPc = "send"
    /\ Len(data) = 2
    /\ volume.val # vol
    /\ \E k \in 1..2 : Convert(data[k], volume.val) # Convert(data[k], vol)
    /\ ScaledBySnapshot

\* the step is taken by the control listener / by the capture callback
ListenerSteps == listenerVars' # listenerVars /\ listenerPc # "unspawned"

CallbackSteps == callbackVars' # callbackVars

\* C15: the listener holds the lock exactly while it is at its store and
\* the callback exactly while it is at its read, so never across the
\* receive, the logging, the sample loop or the send; apart from the lock
\* and the volume behind it no variable is touched by both contexts; in no
\* state of a live process is a context waiting for a lock that nothing can
\* release; and under fair scheduling a context waiting for the lock
\* eventually holds it, unless the process exits first.
C15_ShortLock ==
    /\ [](/\ (mutex = "listener") <=> (listenerPc = "store")
          /\ (mutex = "callback") <=> (cbPc = "read")
          /\ (Alive /\ (listenerPc = "lock" \/ cbPc = "lock"))
               => \/ mutex = "free"
                  \/ ENABLED ListenerStore
                  \/ ENABLED CallbackRead)
    /\ [][/\ ListenerSteps => UNCHANGED <<mainVars, callbackVars>>
          /\ CallbackSteps => UNCHANGED <<mainVars, listenerVars, volume>>
          /\ (mutex' # mutex) => (ListenerSteps \/ CallbackSteps)]_vars
    /\ (listenerPc = "lock") ~> (listenerPc = "store" \/ ~Alive)
    /\ (cbPc = "lock") ~> (cbPc = "read" \/ ~Alive)

\* C15 witness: the listener waits for the lock while the callback holds it
\* for its read.
C15_Witness ==
    /\ Alive
    /\ listenerPc = "lock"
    /\ cbPc = "read"
    /\ mutex = "callback"

\* the step is a send attempt: try_send is called and returns
SendAttempt == cbPc = "send" /\ CallbackSteps

\* C16: try_send is called only when the loop has converted every sample of
\* a non-empty captured buffer, with the whole buffer of the invocation; the
\* attempt, whatever its outcome, ends the invocation, so there is at most
\* one; an invocation ends without an attempt only if the captured buffer
\* was empty; nothing is sent outside an attempt.
C16_OneSendPerBuffer ==
    /\ [](cbPc = "send" =>
            /\ Len(data) >= 1
            /\ next_sample = Len(data) + 1
            /\ Len(buffer) = 2 * Len(data))
    /\ [][/\ SendAttempt => cbPc' = "idle"
          /\ (cbPc' = "send" /\ cbPc # "send")
               => (cbPc = "loop" /\ next_sample > Len(data) /\ buffer' = buffer)
          /\ (cbPc = "loop" /\ cbPc' = "idle")
               => (Len(data) = 0 /\ buffer = <<>>)
          /\ (cbPc = "loop" /\ next_sample > Len(data) /\ Len(data) >= 1
                /\ CallbackSteps) => cbPc' = "send"
          /\ (lastSend' # lastSend \/ audioSent' # audioSent) => SendAttempt]_vars

\* C16 witness: after an earlier attempt failed, an invocation with one
\* captured sample has converted it and is at its send attempt.
C16_Witness ==
    /\ cbPc = "send"
    /\ lastSend = "err"
    /\ Len(data) = 1
    /\ Len(buffer) = 2

(***************************************************************************)
(* Control listener error claims (checked under Spec).                     *)
(***************************************************************************)
\* recv_from has returned an error and the listener is about to handle it
RecvErrorPending == listenerPc = "handle" /\ ~recv.ok

\* a valid control datagram (0.42) is delivered to recv_from
ReceivesValid == ListenerRecv /\ datagram' = Payload042

\* C17: the step in which recv_from fails and the step that handles the
\* failure change neither Volume State nor anything of main, and the
\* handling puts the listener back at recv_from; and in every reachable
\* state of a live process, so after any sequence of errors and datagrams,
\* a listener at recv_from can receive a valid 8-byte datagram, which it
\* then decodes, accepts and commits.
C17_RecvErrorsSurvived ==
    /\ []((Alive /\ listenerPc = "recv") => ENABLED ReceivesValid)
    /\ [][/\ (listenerPc = "recv" /\ RecvErrorPending')
               => UNCHANGED <<mainVars, volume, mutex, callbackVars>>
          /\ (RecvErrorPending /\ ListenerSteps)
               => /\ listenerPc' = "recv"
                  /\ UNCHANGED <<mainVars, volume, mutex, callbackVars>>
          /\ (listenerPc = "handle" /\ recv.ok /\ datagram = Payload042
                /\ ListenerSteps)
               => (listenerPc' = "lock" /\ received_volume' = ReadF64LE(Payload042))
          /\ (listenerPc = "store" /\ datagram = Payload042 /\ ListenerSteps)
               => (volume' = SomeVolume(F32_042) /\ listenerPc' = "recv")]_vars

\* C17 witness: a receive error is being handled in a process that streams,
\* after a control datagram had set the volume to 0.42; the handling
\* returns the listener to recv_from.
C17_Witness ==
    /\ Alive /\ stream = "playing"
    /\ RecvErrorPending
    /\ datagram = <<>>
    /\ volume = SomeVolume(F32_042)
    /\ ENABLED (ListenerHandle /\ listenerPc' = "recv")

(***************************************************************************)
(* Device usability claim (checked under SpecSelect).                      *)
(***************************************************************************)
\* C18: whatever the device list and the criteria, a device returned by
\* select_device reports at least one supported input configuration.
C18_SelectedHasInput ==
    (SelectionDone /\ selected.some) => ReportsInput(devices, selected.idx + 1)

(***************************************************************************)
(* Control socket bind failure (checked under Spec).                       *)
(***************************************************************************)
\* the listener task has returned because its bind failed
ListenerGone == listenerPc = "returned"

\* C19: the step in which the bind fails changes nothing but the listener's
\* position; afterwards the listener never acts again and never holds the
\* lock, Volume State is the startup volume in every later state, and main
\* and the callback go on: the stream is built and played, buffers are
\* captured and the callback gets the lock whenever it asks.
C19_BindFailureIsolated ==
    /\ [](ListenerGone =>
            /\ volume = SomeVolume(args.volume)
            /\ mutex # "listener"
            /\ (mainPc = "build" /\ sample_format \in {"F32", "I16"})
                  => ENABLED (MainBuild /\ stream' = "built")
            /\ (mainPc = "play") => ENABLED MainPlay
            /\ (Alive /\ stream = "playing" /\ cbPc = "idle")
                  => ENABLED CallbackInvoke
            /\ (Alive /\ cbPc = "lock") => ENABLED CallbackLock)
    /\ [][/\ (listenerPc = "bind" /\ ListenerGone')
               => UNCHANGED <<mainVars, volume, mutex, datagram, recv, buf,
                              received_volume, callbackVars>>
          /\ ListenerGone => (listenerVars' = listenerVars)
          /\ ListenerGone' => (listenerPc \in {"bind", "returned"})]_vars

\* C19 witness: the bind failed, and the process started with volume 0.5
\* is playing, has sent audio, and is in the middle of a buffer that it
\* scales by 0.5.
C19_Witness ==
    /\ ListenerGone
    /\ Alive /\ stream = "playing"
    /\ audioSent
    /\ args.volume = F32Half
    /\ cbPc = "loop" /\ vol = F32Half

(***************************************************************************)
(* Range of the encoded sample (checked under SpecConvert).                *)
(***************************************************************************)
\* the sign of the captured sample: -1, 0 or 1 (0 for a NaN)
SampleSign(sample) ==
    IF sample_format = "F32"
    THEN (IF F32IsNaN(sample) \/ F32IsZero(sample) THEN 0
          ELSE IF sample.s = 1 THEN 0 - 1 ELSE 1)
    ELSE (IF sample = 0 THEN 0 ELSE IF sample < 0 THEN 0 - 1 ELSE 1)

\* C20: for every captured sample of either format and every volume of
\* [0.0, 1.0], the encoded 16-bit sample lies in [-32767, 32767] and is zero
\* or has the sign of the captured sample.
C20_EncodedInRange ==
    (SampleEncoded /\ InUnit32(vol)) =>
        /\ Encoded >= 0 - 32767
        /\ Encoded <= 32767
        /\ Encoded = 0 \/ (Encoded > 0) = (SampleSign(data[1]) = 1)
        /\ (Encoded # 0) => (SampleSign(data[1]) # 0)

\* C20 witness: the 16-bit input -32768 at volume 1.0, whose normalized
\* value is below -1.0, is encoded as -32767.
C20_Witness ==
    /\ SampleEncoded
    /\ sample_format = "I16"
    /\ data[1] = 0 - 32768
    /\ vol = F32One
    /\ F32Lt(Normalized(data[1]), F32NegOne)
    /\ Encoded = 0 - 32767

====
